---- MODULE Spec2Model ----
(***************************************************************************)
(* Model of the Yeelight bulb Homebridge plugin.                           *)
(*                                                                         *)
(*   - platform.ts (src/unnamed/part_000): SSDP-style discovery over a     *)
(*     UDP socket, the reply parser parseScript, and the reconciliation    *)
(*     of the collected replies against the cached accessories;            *)
(*   - platformAccessory.ts: the getOn / setOn handlers, each opening a    *)
(*     TCP connection to the bulb, writing one JSON command and reading    *)
(*     the reply.                                                          *)
(*                                                                         *)
(* JavaScript strings are TLA+ strings (Len, SubSeq and \o act on them).   *)
(* A Record<string,string> is a function whose DOMAIN is its set of keys;  *)
(* a property that is undefined is a key outside the DOMAIN.               *)
(***************************************************************************)
EXTENDS Integers, Sequences, FiniteSets, TLC

VARIABLES
    crashed,      \* an exception or 'error' event nobody handles ended the process
    \* ---- control channel (platformAccessory.ts), one entry per invocation
    inv,          \* invocation -> record of the invocation's locals and socket
    delivered,    \* number of data chunks delivered so far, over all connections
    \* ---- discovery (platform.ts)
    phase,        \* "launching" | "discovering"
    accessories,  \* this.accessories: the accessories restored from the cache
    dsock,        \* the dgram socket: "none" | "binding" | "listening" | "closed"
    dtimer,       \* the collection window timer: "none" | "armed" | "fired"
    probes,       \* probe datagrams handed to socket.send
    arrived,      \* the datagrams the socket delivered, in arrival order
    devices,      \* the local `devices` array of discoverDevices
    reconciled,   \* what the close handler did: sequence of Create/Restore entries
    registered,   \* the UUIDs passed to api.registerPlatformAccessories, in order
    closeRuns,    \* how many times the 'close' handler has run
    \* ---- parseScript on its own
    pInput,       \* the text given to parseScript: its lines and line separator
    parsed        \* <<>> before the call, <<the returned mapping>> after it

ctlVars == <<inv, delivered>>
discVars == <<phase, accessories, dsock, dtimer, probes, arrived, devices,
              reconciled, registered, closeRuns>>
parserVars == <<pInput, parsed>>
vars == <<crashed, inv, delivered, phase, accessories, dsock, dtimer, probes,
          arrived, devices, reconciled, registered, closeRuns, pInput, parsed>>

(***************************************************************************)
(* Bounds of the model.                                                    *)
(***************************************************************************)
MaxInv == 2          \* control-channel invocations in a run
MaxChunks == 2       \* data chunks delivered in a run, over all connections
MaxDatagrams == 2    \* discovery replies delivered in a cycle
MaxKnown == 1        \* accessories restored from the cache before discovery
MaxLines == 2        \* lines of a text given to parseScript on its own

(***************************************************************************)
(* String helpers: the JavaScript String methods the code calls.           *)
(***************************************************************************)
Char(s, k) == SubSeq(s, k, k)

UpperCase == "ABCDEFGHIJKLMNOPQRSTUVWXYZ"
LowerCase == "abcdefghijklmnopqrstuvwxyz"

\* String.prototype.toLowerCase on one character
LowerChar(c) ==
    IF \E k \in 1..Len(UpperCase) : Char(UpperCase, k) = c
    THEN Char(LowerCase, CHOOSE k \in 1..Len(UpperCase) : Char(UpperCase, k) = c)
    ELSE c

RECURSIVE ToLowerCase(_)
ToLowerCase(s) ==
    IF Len(s) = 0 THEN ""
    ELSE LowerChar(Char(s, 1)) \o ToLowerCase(SubSeq(s, 2, Len(s)))

\* the white space and line terminators String.prototype.trim removes
IsSpace(c) == c \in {" ", "\t", "\r", "\n", "\f"}

RECURSIVE TrimStart(_)
TrimStart(s) ==
    IF Len(s) > 0 /\ IsSpace(Char(s, 1)) THEN TrimStart(SubSeq(s, 2, Len(s))) ELSE s

RECURSIVE TrimEnd(_)
TrimEnd(s) ==
    IF Len(s) > 0 /\ IsSpace(Char(s, Len(s)))
    THEN TrimEnd(SubSeq(s, 1, Len(s) - 1)) ELSE s

Trim(s) == TrimEnd(TrimStart(s))

\* String.prototype.indexOf, 1-based; 0 stands for JavaScript's -1
IndexOf(s, sub) ==
    LET hits == {k \in 1..(Len(s) - Len(sub) + 1) : SubSeq(s, k, k + Len(sub) - 1) = sub}
    IN  IF hits = {} THEN 0 ELSE CHOOSE k \in hits : \A j \in hits : k <= j

\* String.prototype.split with a non-empty separator
RECURSIVE Split(_, _)
Split(s, sep) ==
    LET k == IndexOf(s, sep)
    IN  IF k = 0 THEN <<s>>
        ELSE <<SubSeq(s, 1, k - 1)>> \o Split(SubSeq(s, k + Len(sep), Len(s)), sep)

(***************************************************************************)
(* parseScript: the discovery reply parser.                                *)
(***************************************************************************)
NoFields == [k \in {} |-> ""]

\* data[key] = value, data being a plain object ({}): the key "__proto__" names
\* the accessor inherited from Object.prototype, whose setter ignores a value
\* that is a string, so that assignment adds no entry
Put(data, key, value) ==
    IF key = "__proto__" THEN data
    ELSE [k \in (DOMAIN data) \cup {key} |-> IF k = key THEN value ELSE data[k]]

\* the body of the for loop, for one line
ParseLine(data, line) ==
    LET separatorIndex == IndexOf(line, ":")
    IN  IF separatorIndex # 0
        THEN Put(data,
                 ToLowerCase(Trim(SubSeq(line, 1, separatorIndex - 1))),
                 Trim(SubSeq(line, separatorIndex + 1, Len(line))))
        ELSE data

RECURSIVE ParseLines(_, _)
ParseLines(data, lines) ==
    IF lines = <<>> THEN data
    ELSE ParseLines(ParseLine(data, Head(lines)), Tail(lines))

parseScript(script) == ParseLines(NoFields, Split(script, "\n"))

\* Lines a reply may hold, each with the entry it stands for (colon = FALSE: the
\* line has no ':' and stands for none).
ReplyLines ==
    { [raw |-> "HTTP/1.1 200 OK", colon |-> FALSE, key |-> "", value |-> ""],
      [raw |-> "", colon |-> FALSE, key |-> "", value |-> ""],
      [raw |-> "Location: yeelight://10.0.0.5:55443", colon |-> TRUE,
       key |-> "location", value |-> "yeelight://10.0.0.5:55443"],
      [raw |-> "id: 0x1", colon |-> TRUE, key |-> "id", value |-> "0x1"],
      [raw |-> " ID :0x2 ", colon |-> TRUE, key |-> "id", value |-> "0x2"],
      [raw |-> "Cache-Control:", colon |-> TRUE, key |-> "cache-control", value |-> ""],
      [raw |-> "__proto__: x", colon |-> TRUE, key |-> "__proto__", value |-> "x"] }

LineSeparators == {"\r\n", "\n"}

RECURSIVE SeqsUpTo(_, _)
SeqsUpTo(S, n) ==
    IF n = 0 THEN {<<>>}
    ELSE LET shorter == SeqsUpTo(S, n - 1)
         IN  shorter \cup {Append(q, x) : q \in shorter, x \in S}

ParserInputs == [lines : SeqsUpTo(ReplyLines, MaxLines), eol : LineSeparators]

\* the text: every line followed by the separator
RECURSIVE Script(_, _)
Script(lines, eol) ==
    IF lines = <<>> THEN "" ELSE Head(lines).raw \o eol \o Script(Tail(lines), eol)

\* a caller hands the text to parseScript and keeps what it returns
ParseScript ==
    /\ parsed = <<>>
    /\ parsed' = <<parseScript(Script(pInput.lines, pInput.eol))>>
    /\ UNCHANGED <<crashed, ctlVars, discVars, pInput>>

(***************************************************************************)
(* Control channel: platformAccessory.ts                                   *)
(***************************************************************************)
Invocations == 1..MaxInv

\* accessory.context.device of the accessories the handlers are bound to
DeviceGood   == [id |-> "0x1", model |-> "color", location |-> "yeelight://10.0.0.5:55443"]
DeviceNoPort == [id |-> "0x2", model |-> "color", location |-> "yeelight://10.0.0.5"]
DeviceNoHost == [id |-> "0x3", model |-> "color", location |-> "10.0.0.5:55443"]
DeviceNoLoc  == [id |-> "0x4", model |-> "color"]
CtlDevices == {DeviceGood, DeviceNoPort, DeviceNoHost, DeviceNoLoc}

\* the reply chunks the bulb may deliver on a connection
ReplyOn  == "{\"id\":1,\"result\":[\"on\"]}\r\n"
ReplyOff == "{\"id\":1,\"result\":[\"off\"]}\r\n"
ReplyErr == "{\"id\":1,\"error\":{\"code\":-1,\"message\":\"unsupported method\"}}\r\n"
ReplyEmpty == "{\"id\":1,\"result\":[]}\r\n"
ReplyNull == "null\r\n"
ReplyBad == "{\"id\":1,\"resu"
Chunks == {ReplyOn, ReplyOff, ReplyErr, ReplyEmpty, ReplyNull, ReplyBad}

\* JSON.parse on the chunks above: ok = FALSE stands for the SyntaxError it
\* throws, null = TRUE for the value null (which has no properties to read)
JSONParse(text) ==
    CASE text = ReplyOn  -> [ok |-> TRUE, null |-> FALSE,
                             value |-> [id |-> 1, result |-> <<"on">>]]
      [] text = ReplyOff -> [ok |-> TRUE, null |-> FALSE,
                             value |-> [id |-> 1, result |-> <<"off">>]]
      [] text = ReplyErr -> [ok |-> TRUE, null |-> FALSE,
                             value |-> [id |-> 1, error |->
                                [code |-> -1, message |-> "unsupported method"]]]
      [] text = ReplyEmpty -> [ok |-> TRUE, null |-> FALSE,
                               value |-> [id |-> 1, result |-> <<>>]]
      [] text = ReplyNull -> [ok |-> TRUE, null |-> TRUE, value |-> NoFields]
      [] OTHER           -> [ok |-> FALSE, null |-> FALSE, value |-> NoFields]

\* const ip = location.split('//')[1].split(':')[0], const port = ...[1];
\* threw = TRUE stands for the TypeError of calling split on undefined
ParseLocation(device) ==
    IF "location" \notin DOMAIN device
    THEN [threw |-> TRUE, ip |-> "", hasPort |-> FALSE, port |-> ""]
    ELSE LET afterSlashes == Split(device.location, "//")
         IN  IF Len(afterSlashes) < 2
             THEN [threw |-> TRUE, ip |-> "", hasPort |-> FALSE, port |-> ""]
             ELSE LET hostPort == Split(afterSlashes[2], ":")
                  IN  [threw |-> FALSE, ip |-> hostPort[1],
                       hasPort |-> Len(hostPort) >= 2,
                       port |-> IF Len(hostPort) >= 2 THEN hostPort[2] ELSE ""]

\* ip and port of each device the handlers may be bound to
Locations == [device \in CtlDevices |-> ParseLocation(device)]

GetPayload == "{\"id\":1,\"method\":\"get_prop\",\"params\":[\"power\"]}\r\n"
SetPayload(value) ==
    "{\"id\":1,\"method\":\"set_power\",\"params\":[\""
        \o (IF value THEN "on" ELSE "off") \o "\",\"smooth\",500]}\r\n"

\* an invocation that has not been made yet
NoInvocation ==
    [kind |-> "none", device |-> NoFields, payload |-> "",
     sock |-> "none", connects |-> 0, closes |-> 0, wrote |-> <<>>,
     timer |-> "none", isOn |-> FALSE, rcvd |-> <<>>, silent |-> FALSE,
     error |-> FALSE, ret |-> "pending"]

BoolStr(b) == IF b THEN "true" ELSE "false"

\* Fields of an invocation:
\*   kind      "none" | "getOn" | "setOn"
\*   device    this.accessory.context.device
\*   payload   the command the connect callback writes
\*   sock      "none" (never created) | "created" (connect threw, never
\*             connected) | "connecting" | "open" | "closed"
\*   connects  calls of client.connect;  closes: times the socket was closed
\*   wrote     what client.write was given, in order
\*   timer     getOn's setTimeout: "none" | "armed" | "fired"
\*   isOn      getOn's local;  rcvd: the chunks the data handler was given
\*   silent    the bulb will send nothing more on this connection
\*   error     the socket emitted 'error'
\*   ret       how the promise settled: "pending", "true", "false", "undefined"
\*             (setOn's value) or "TypeError" (rejected)
\*
\* client.connect(port, ip, cb) with port undefined (a location without ':port'):
\* net either rejects the missing port with a TypeError thrown by connect
\* (strict = TRUE), or takes it as port 0 and attempts the connection, which
\* cannot be established (strict = FALSE), depending on the Node.js release.

\* client.destroy(): closes the socket; a no-op on a socket already destroyed
Destroy(r) ==
    IF r.sock \in {"connecting", "open"}
    THEN [r EXCEPT !.sock = "closed", !.closes = @ + 1]
    ELSE r

\* invocations are numbered in the order they are made
MayStart(i) ==
    /\ ~crashed
    /\ inv[i].kind = "none"
    /\ IF i = 1 THEN TRUE ELSE inv[i - 1].kind # "none"

\* getOn up to its await: parse the location, create the socket, start the
\* connect, register the data handler, arm the timer
GetOnLocals(device, strict) ==
    IF Locations[device].threw
    THEN [NoInvocation EXCEPT !.kind = "getOn", !.device = device,
                              !.payload = GetPayload, !.ret = "TypeError"]
    ELSE IF ~Locations[device].hasPort /\ strict
    THEN [NoInvocation EXCEPT !.kind = "getOn", !.device = device,
                              !.payload = GetPayload, !.sock = "created",
                              !.connects = 1, !.ret = "TypeError"]
    ELSE [NoInvocation EXCEPT !.kind = "getOn", !.device = device,
                              !.payload = GetPayload, !.sock = "connecting",
                              !.connects = 1, !.timer = "armed", !.isOn = FALSE]

GetOn(i) ==
    /\ MayStart(i)
    /\ \E device \in CtlDevices, strict \in BOOLEAN :
           inv' = [inv EXCEPT ![i] = GetOnLocals(device, strict)]
    /\ UNCHANGED <<crashed, delivered, discVars, parserVars>>

\* setOn: parse the location, create the socket, start the connect, register
\* the data and close handlers; the async function then returns undefined
SetOnLocals(device, value, strict) ==
    IF Locations[device].threw
    THEN [NoInvocation EXCEPT !.kind = "setOn", !.device = device,
                              !.ret = "TypeError"]
    ELSE IF ~Locations[device].hasPort /\ strict
    THEN [NoInvocation EXCEPT !.kind = "setOn", !.device = device,
                              !.payload = SetPayload(value), !.sock = "created",
                              !.connects = 1, !.ret = "TypeError"]
    ELSE [NoInvocation EXCEPT !.kind = "setOn", !.device = device,
                              !.payload = SetPayload(value), !.sock = "connecting",
                              !.connects = 1, !.ret = "undefined"]

SetOn(i) ==
    /\ MayStart(i)
    /\ \E device \in CtlDevices, value \in BOOLEAN, strict \in BOOLEAN :
           inv' = [inv EXCEPT ![i] = SetOnLocals(device, value, strict)]
    /\ UNCHANGED <<crashed, delivered, discVars, parserVars>>

\* the connect callback: client.write(payload)
OnConnect(r) == [r EXCEPT !.sock = "open", !.wrote = Append(@, r.payload)]

\* (variant: the connect callback also runs on a socket already destroyed)
ConnectOkAfterDestroy(i) ==
    /\ ~crashed
    /\ inv[i].sock \in {"connecting", "closed"}
    /\ Locations[inv[i].device].hasPort
    /\ inv' = [inv EXCEPT ![i] = OnConnect(@)]
    /\ UNCHANGED <<crashed, delivered, discVars, parserVars>>

\* (no connection is established to a missing port)
ConnectOk(i) ==
    /\ ~crashed
    /\ inv[i].sock = "connecting"
    /\ Locations[inv[i].device].hasPort
    /\ inv' = [inv EXCEPT ![i] = OnConnect(@)]
    /\ UNCHANGED <<crashed, delivered, discVars, parserVars>>

\* The connection cannot be established: net destroys the socket and emits
\* 'error'. Neither handler registers an 'error' listener, so the event is an
\* uncaught exception.
HasErrorListener(r) == FALSE

ConnectFail(i) ==
    /\ ~crashed
    /\ inv[i].sock = "connecting"
    /\ inv' = [inv EXCEPT ![i] = [Destroy(@) EXCEPT !.error = TRUE]]
    /\ crashed' = ~HasErrorListener(inv[i])
    /\ UNCHANGED <<delivered, discVars, parserVars>>

\* getOn's data handler; threw = TRUE when JSON.parse throws inside it, or
\* when response is null and reading response.result throws
GetOnData(r, data) ==
    LET response == JSONParse(data)
        seen == [r EXCEPT !.rcvd = Append(@, data)]
    IN  IF ~response.ok \/ response.null
        THEN [threw |-> TRUE, r |-> seen]
        ELSE IF "result" \in DOMAIN response.value
        THEN [threw |-> FALSE,
              r |-> [seen EXCEPT !.isOn = Len(response.value.result) >= 1
                                          /\ response.value.result[1] = "on"]]
        ELSE [threw |-> FALSE, r |-> seen]

\* setOn's data handler: log and destroy
SetOnData(r, data) ==
    [threw |-> FALSE, r |-> Destroy([r EXCEPT !.rcvd = Append(@, data)])]

OnData(r, data) == IF r.kind = "getOn" THEN GetOnData(r, data) ELSE SetOnData(r, data)

\* (variant: isOn is one field shared by the handlers, not a local of each call)
DataSharedIsOn(i) ==
    /\ ~crashed
    /\ inv[i].sock = "open"
    /\ ~inv[i].silent
    /\ delivered < MaxChunks
    /\ \E data \in Chunks :
           /\ inv' = [j \in Invocations |->
                         IF j = i THEN OnData(inv[i], data).r
                         ELSE IF inv[j].kind = "getOn" /\ inv[i].kind = "getOn"
                         THEN [inv[j] EXCEPT !.isOn = OnData(inv[i], data).r.isOn]
                         ELSE inv[j]]
           /\ crashed' = OnData(inv[i], data).threw
    /\ delivered' = delivered + 1
    /\ UNCHANGED <<discVars, parserVars>>

\* a chunk arrives on an open connection
Data(i) ==
    /\ ~crashed
    /\ inv[i].sock = "open"
    /\ ~inv[i].silent
    /\ delivered < MaxChunks
    /\ \E data \in Chunks :
           /\ inv' = [inv EXCEPT ![i] = OnData(@, data).r]
           /\ crashed' = OnData(inv[i], data).threw
    /\ delivered' = delivered + 1
    /\ UNCHANGED <<discVars, parserVars>>

\* the bulb sends nothing (more) on this connection
PeerSilent(i) ==
    /\ ~crashed
    /\ inv[i].sock = "open"
    /\ ~inv[i].silent
    /\ inv' = [inv EXCEPT ![i].silent = TRUE]
    /\ UNCHANGED <<crashed, delivered, discVars, parserVars>>

\* (variant: the timeout path reports its own result instead of isOn)
AfterTimeoutOverrides(r) == [Destroy(r) EXCEPT !.timer = "fired", !.ret = "false"]

\* getOn after its await: client.destroy(); return isOn
AfterTimeout(r) == [Destroy(r) EXCEPT !.timer = "fired", !.ret = BoolStr(r.isOn)]

TimerFire(i) ==
    /\ ~crashed
    /\ inv[i].timer = "armed"
    /\ inv' = [inv EXCEPT ![i] = AfterTimeout(@)]
    /\ UNCHANGED <<crashed, delivered, discVars, parserVars>>

InitControl ==
    /\ inv = [i \in Invocations |-> NoInvocation]
    /\ delivered = 0

NextControl ==
    \/ \E i \in Invocations : GetOn(i)
    \/ \E i \in Invocations : SetOn(i)
    \/ \E i \in Invocations : ConnectOk(i)
    \/ \E i \in Invocations : ConnectFail(i)
    \/ \E i \in Invocations : Data(i)
    \/ \E i \in Invocations : PeerSilent(i)
    \/ \E i \in Invocations : TimerFire(i)

(***************************************************************************)
(* Discovery and reconciliation: platform.ts                               *)
(***************************************************************************)
\* the replies bulbs may send to the probe
ReplyBulb1      == "HTTP/1.1 200 OK\r\nLocation: yeelight://10.0.0.5:55443\r\nid: 0x1\r\nmodel: color\r\n"
ReplyBulb1Moved == "HTTP/1.1 200 OK\r\nLocation: yeelight://10.0.0.9:55443\r\nid: 0x1\r\nmodel: color\r\n"
ReplyBulb2      == "HTTP/1.1 200 OK\r\nLocation: yeelight://10.0.0.6:55443\r\nid: 0x2\r\nmodel: mono\r\n"
ReplyNoId       == "HTTP/1.1 200 OK\r\nLocation: yeelight://10.0.0.7:55443\r\nmodel: mono\r\n"
Datagrams == {ReplyBulb1, ReplyBulb1Moved, ReplyBulb2, ReplyNoId}

\* api.hap.uuid.generate: a deterministic digest of the id
Generate(id) == "uuid:" \o id

\* an accessory as homebridge caches it: created by an earlier run from `device`
Accessory(device) ==
    [UUID |-> Generate(device.id), displayName |-> device.model,
     context |-> [device |-> device]]

\* the accessories homebridge may hold in its cache
CachedAccessories == {Accessory(parseScript(ReplyBulb1)), Accessory(parseScript(ReplyBulb2))}

\* configureAccessory: this.accessories.push(accessory)
ConfigureAccessory ==
    /\ ~crashed
    /\ phase = "launching"
    /\ Len(accessories) < MaxKnown
    /\ \E accessory \in CachedAccessories :
           /\ \A k \in 1..Len(accessories) : accessories[k].UUID # accessory.UUID
           /\ accessories' = Append(accessories, accessory)
    /\ UNCHANGED <<crashed, ctlVars, parserVars, phase, dsock, dtimer, probes, arrived, devices,
                   reconciled, registered, closeRuns>>

\* (variant: the probe is sent right after bind is called, and again on 'listening')
DiscoverDevicesSendsEarly ==
    /\ ~crashed
    /\ phase = "launching"
    /\ phase' = "discovering"
    /\ dsock' = "binding"
    /\ dtimer' = "armed"
    /\ devices' = <<>>
    /\ probes' = probes + 1
    /\ UNCHANGED <<crashed, ctlVars, parserVars, accessories, arrived, reconciled,
                   registered, closeRuns>>

\* didFinishLaunching -> discoverDevices(): create the socket, register the
\* handlers, bind, arm the collection window timer
DiscoverDevices ==
    /\ ~crashed
    /\ phase = "launching"
    /\ phase' = "discovering"
    /\ dsock' = "binding"
    /\ dtimer' = "armed"
    /\ devices' = <<>>
    /\ UNCHANGED <<crashed, ctlVars, parserVars, accessories, probes, arrived, reconciled,
                   registered, closeRuns>>

\* the 'listening' handler: setBroadcast, setMulticastTTL, addMembership, send.
\* addMembership throws when the group cannot be joined; nothing catches it.
Listening ==
    /\ ~crashed
    /\ dsock = "binding"
    /\ dsock' = "listening"
    /\ \E joined \in BOOLEAN :
           /\ crashed' = ~joined
           /\ probes' = IF joined THEN probes + 1 ELSE probes
    /\ UNCHANGED <<ctlVars, parserVars, phase, accessories, dtimer, arrived, devices,
                   reconciled, registered, closeRuns>>

\* (variant: a reply whose id was already collected is not pushed again)
OnMessageDedup(list, message) ==
    LET parsedDevice == parseScript(message)
    IN  IF \E k \in 1..Len(list) :
               /\ "id" \in DOMAIN list[k] /\ "id" \in DOMAIN parsedDevice
               /\ list[k].id = parsedDevice.id
        THEN list
        ELSE Append(list, parsedDevice)

\* the 'message' handler: devices.push(parseScript(message.toString()))
OnMessage(list, message) == Append(list, parseScript(message))

Message ==
    /\ ~crashed
    /\ dsock = "listening"
    /\ Len(arrived) < MaxDatagrams
    /\ \E message \in Datagrams :
           /\ arrived' = Append(arrived, message)
           /\ devices' = OnMessage(devices, message)
    /\ UNCHANGED <<crashed, ctlVars, parserVars, phase, accessories, dsock, dtimer, probes,
                   reconciled, registered, closeRuns>>

\* (variant: the lookup compares the display name instead of the UUID)
FindAccessoryByName(list, uuid) ==
    LET hits == {k \in 1..Len(list) : list[k].displayName = uuid}
    IN  IF hits = {} THEN 0 ELSE CHOOSE k \in hits : \A j \in hits : k <= j

\* this.accessories.find(accessory => accessory.UUID === uuid): the index of the
\* first match, 0 when find returns undefined
FindAccessory(list, uuid) ==
    LET hits == {k \in 1..Len(list) : list[k].UUID = uuid}
    IN  IF hits = {} THEN 0 ELSE CHOOSE k \in hits : \A j \in hits : k <= j

\* whether the loop body handles `device` without throwing: uuid.generate hashes
\* its argument and throws a TypeError on undefined
Hashable(device) == "id" \in DOMAIN device

\* (variant: a restore stores the new record in the accessory's context)
ReconcileDeviceRefreshes(st, device, known) ==
    IF ~Hashable(device)
    THEN [st EXCEPT !.threw = TRUE]
    ELSE LET uuid == Generate(device.id)
             existing == FindAccessory(known, uuid)
         IN  IF existing # 0
             THEN [st EXCEPT !.reconciled = Append(@,
                      [action |-> "Restore", uuid |-> uuid,
                       accessory |-> [known[existing] EXCEPT !.context.device = device]])]
             ELSE [st EXCEPT !.reconciled = Append(@,
                      [action |-> "Create", uuid |-> uuid,
                       accessory |-> [UUID |-> uuid, displayName |-> device.model,
                                      context |-> [device |-> device]]]),
                             !.registered = Append(@, uuid)]

\* one iteration of the close handler's loop; st = [reconciled, registered, threw]
ReconcileDevice(st, device, known) ==
    IF ~Hashable(device)
    THEN [st EXCEPT !.threw = TRUE]
    ELSE LET uuid == Generate(device.id)
             existing == FindAccessory(known, uuid)
         IN  IF existing # 0
             THEN [st EXCEPT !.reconciled = Append(@,
                      [action |-> "Restore", uuid |-> uuid, accessory |-> known[existing]])]
             ELSE [st EXCEPT !.reconciled = Append(@,
                      [action |-> "Create", uuid |-> uuid,
                       accessory |-> [UUID |-> uuid, displayName |-> device.model,
                                      context |-> [device |-> device]]]),
                             !.registered = Append(@, uuid)]

\* for (const device of devices) { ... }: an exception ends the loop
RECURSIVE ReconcileAll(_, _, _)
ReconcileAll(st, list, known) ==
    IF list = <<>> \/ st.threw THEN st
    ELSE ReconcileAll(ReconcileDevice(st, Head(list), known), Tail(list), known)

\* socket.close() on a running socket, and the 'close' handler that runs on the
\* next tick, before any other event
CloseSocket ==
    LET st == ReconcileAll([reconciled |-> reconciled, registered |-> registered,
                            threw |-> FALSE], devices, accessories)
    IN  /\ dsock' = "closed"
        /\ closeRuns' = closeRuns + 1
        /\ reconciled' = st.reconciled
        /\ registered' = st.registered
        /\ crashed' = st.threw

\* (variant: the error handler drops what was collected before closing)
SocketErrorDiscards ==
    /\ ~crashed
    /\ dsock \in {"binding", "listening"}
    /\ devices' = <<>>
    /\ dsock' = "closed"
    /\ closeRuns' = closeRuns + 1
    /\ UNCHANGED <<crashed, ctlVars, parserVars, phase, accessories, dtimer, probes,
                   arrived, reconciled, registered>>

\* the 'error' handler: log, socket.close()
SocketError ==
    /\ ~crashed
    /\ dsock \in {"binding", "listening"}
    /\ CloseSocket
    /\ UNCHANGED <<ctlVars, parserVars, phase, accessories, dtimer, probes, arrived, devices>>

\* setTimeout(() => socket.close(), 1000): close() throws on a socket that is
\* already closed, and nothing catches it
WindowTimer ==
    /\ ~crashed
    /\ dtimer = "armed"
    /\ dtimer' = "fired"
    /\ IF dsock = "closed"
       THEN /\ crashed' = TRUE
            /\ UNCHANGED <<dsock, closeRuns, reconciled, registered>>
       ELSE CloseSocket
    /\ UNCHANGED <<ctlVars, parserVars, phase, accessories, probes, arrived, devices>>

InitDiscovery ==
    /\ phase = "launching"
    /\ accessories = <<>>
    /\ dsock = "none"
    /\ dtimer = "none"
    /\ probes = 0
    /\ arrived = <<>>
    /\ devices = <<>>
    /\ reconciled = <<>>
    /\ registered = <<>>
    /\ closeRuns = 0

NextDiscovery ==
    \/ ConfigureAccessory
    \/ DiscoverDevices
    \/ Listening
    \/ Message
    \/ SocketError
    \/ WindowTimer

(***************************************************************************)
(* Specifications                                                          *)
(***************************************************************************)
InitParser == pInput = [lines |-> <<>>, eol |-> "\n"] /\ parsed = <<>>

Init == crashed = FALSE /\ InitControl /\ InitDiscovery /\ InitParser

\* the control channel alone: any interleaving of getOn and setOn invocations
SpecControl == Init /\ [][NextControl]_vars

\* one discovery cycle, from the restore of the cache to the close handler
SpecDiscovery == Init /\ [][NextDiscovery]_vars

\* one discovery cycle in which the collection window timer, once armed, fires
SpecDiscoveryFair == SpecDiscovery /\ WF_vars(WindowTimer)

\* parseScript applied to one text
InitParserInputs ==
    /\ crashed = FALSE /\ InitControl /\ InitDiscovery
    /\ pInput \in ParserInputs
    /\ parsed = <<>>

NextParser == ParseScript

SpecParser == InitParserInputs /\ [][NextParser]_vars

(***************************************************************************)
(* Claims about the control channel (checked under SpecControl)            *)
(***************************************************************************)
Started(i) == inv[i].kind # "none"

\* nothing more can happen to invocation i: the connect is resolved, no timer
\* is pending, and the bulb will send nothing more
Settled(i) ==
    /\ Started(i)
    /\ inv[i].sock # "connecting"
    /\ inv[i].timer # "armed"
    /\ inv[i].sock = "open" => inv[i].silent

\* C1: every invocation that opened a socket has closed it exactly once when
\* nothing more can happen to it: no socket is left open, none is closed twice.
C1_ClosedExactlyOnce ==
    \A i \in Invocations :
        /\ inv[i].closes <= 1
        /\ (Settled(i) /\ inv[i].sock \notin {"none", "created"}) =>
               (inv[i].sock = "closed" /\ inv[i].closes = 1)

\* C2: when the deadline timer fires before any reply chunk was received, the
\* connection is closed and the outcome is TimeoutError, not a power reading.
C2_TimeoutIsTimeoutError ==
    \A i \in Invocations :
        (inv[i].timer = "fired" /\ inv[i].rcvd = <<>>) =>
            (inv[i].sock = "closed" /\ inv[i].ret = "TimeoutError")

\* C3: in the race between reply and timer the loser has no effect. A timer
\* firing after a reply returns the reading derived from the reply and changes
\* nothing else of it; once the timer has fired and closed the socket, no chunk
\* is handled any more and the returned result stays what it was.
C3_Step ==
    \A i \in Invocations :
        /\ (inv[i].timer = "armed" /\ inv'[i].timer = "fired" /\ inv[i].rcvd # <<>>) =>
               /\ inv'[i].ret = BoolStr(inv[i].isOn)
               /\ inv'[i].isOn = inv[i].isOn
               /\ inv'[i].rcvd = inv[i].rcvd
               /\ Len(inv[i].rcvd) = 1 => inv'[i].ret = BoolStr(inv[i].rcvd[1] = ReplyOn)
        /\ inv[i].timer = "fired" =>
               /\ inv'[i].ret = inv[i].ret
               /\ inv'[i].isOn = inv[i].isOn
               /\ inv'[i].rcvd = inv[i].rcvd
               /\ inv'[i].sock = "closed"

C3_FirstEventDecides == [][C3_Step]_vars

\* one invocation returned the reading of a reply that beat the timer, another
\* timed out with chunks still deliverable to it
C3_Witness ==
    \E i, j \in Invocations :
        /\ inv[i].timer = "fired" /\ inv[i].rcvd = <<ReplyOn>> /\ inv[i].ret = "true"
        /\ inv[j].timer = "fired" /\ inv[j].rcvd = <<>> /\ inv[j].wrote # <<>>
        /\ inv[j].ret = "false" /\ ~inv[j].silent /\ delivered < MaxChunks

\* C4: a reply chunk that is not JSON ends getOn with the typed outcome
\* DecodeError, never with an exception escaping the data callback, and with the
\* socket closed once.
C4_DecodeErrorIsTyped ==
    \A i \in Invocations :
        (inv[i].kind = "getOn" /\ \E k \in 1..Len(inv[i].rcvd) : ~JSONParse(inv[i].rcvd[k]).ok) =>
            /\ ~crashed
            /\ inv[i].ret \in {"pending", "DecodeError"}
            /\ inv[i].ret = "DecodeError" => (inv[i].sock = "closed" /\ inv[i].closes = 1)

\* C5: a failed connection establishment ends the invocation with the typed
\* outcome ConnectError: the socket error is handled, nothing is written and no
\* second connect is made.
C5_ConnectErrorIsTyped ==
    \A i \in Invocations :
        inv[i].error =>
            /\ ~crashed
            /\ inv[i].ret \in {"pending", "ConnectError"}
            /\ inv[i].wrote = <<>>
            /\ inv[i].connects = 1

\* the address has the shape scheme://host:port
HasFullShape(device) ==
    /\ "location" \in DOMAIN device
    /\ IndexOf(device.location, "//") # 0
    /\ IndexOf(SubSeq(device.location, IndexOf(device.location, "//") + 2,
                      Len(device.location)), ":") # 0

\* C6: an invocation on a device whose address is absent or lacks the
\* scheme://host:port shape fails at once (a rejection of either name counts)
\* and performs no socket operation.
C6_BadAddressNoSocket ==
    \A i \in Invocations :
        (Started(i) /\ ~HasFullShape(inv[i].device)) =>
            /\ inv[i].ret \in {"PreconditionError", "TypeError"}
            /\ inv[i].sock = "none"
            /\ inv[i].connects = 0

(***************************************************************************)
(* Claims about discovery and reconciliation (checked under SpecDiscovery) *)
(***************************************************************************)
Known(uuid) == \E a \in 1..Len(accessories) : accessories[a].UUID = uuid

HasUsableId(device) == "id" \in DOMAIN device /\ device.id # ""

\* C7: a discovered record whose UUID is that of a restored accessory yields
\* Restore with that very accessory; it is never created nor registered.
C7_KnownIsRestored ==
    \A k \in 1..Len(reconciled) :
        Known(Generate(devices[k].id)) =>
            /\ reconciled[k].action = "Restore"
            /\ reconciled[k].uuid = Generate(devices[k].id)
            /\ \E a \in 1..Len(accessories) : accessories[a] = reconciled[k].accessory
            /\ \A r \in 1..Len(registered) : registered[r] # reconciled[k].uuid

\* the moved bulb 0x1 was matched to the accessory cached at its old location
C7_Witness ==
    /\ arrived = <<ReplyBulb1Moved>>
    /\ accessories = <<Accessory(parseScript(ReplyBulb1))>>
    /\ Len(reconciled) = 1
    /\ reconciled[1].action = "Restore"
    /\ registered = <<>>

\* C8: once the close handler has run, there is one reconciliation action per
\* collected record with a usable id: records without one are dropped, and the
\* records after them are still processed.
C8_NoIdDropped ==
    closeRuns >= 1 =>
        Len(reconciled) = Cardinality({k \in 1..Len(devices) : HasUsableId(devices[k])})

\* C9: no UUID is passed to registerPlatformAccessories twice, and none that
\* is in the known accessory list.
C9_RegisteredOnce ==
    /\ \A j, k \in 1..Len(registered) : j # k => registered[j] # registered[k]
    /\ \A k \in 1..Len(registered) : ~Known(registered[k])

\* what each reply parses to
RecordOf(message) ==
    CASE message = ReplyBulb1 ->
             [location |-> "yeelight://10.0.0.5:55443", id |-> "0x1", model |-> "color"]
      [] message = ReplyBulb1Moved ->
             [location |-> "yeelight://10.0.0.9:55443", id |-> "0x1", model |-> "color"]
      [] message = ReplyBulb2 ->
             [location |-> "yeelight://10.0.0.6:55443", id |-> "0x2", model |-> "mono"]
      [] message = ReplyNoId ->
             [location |-> "yeelight://10.0.0.7:55443", model |-> "mono"]

\* C10: the collected sequence holds one parsed record per datagram received,
\* in arrival order, repeats included; no datagram gives the empty sequence.
C10_CollectedInArrivalOrder ==
    /\ Len(devices) = Len(arrived)
    /\ \A k \in 1..Len(arrived) : devices[k] = RecordOf(arrived[k])
    /\ arrived = <<>> => devices = <<>>

\* bulb 0x1 answered twice: both replies were collected, and the window closed
C10_Witness ==
    /\ arrived = <<ReplyBulb1, ReplyBulb1>>
    /\ Len(devices) = 2
    /\ devices[1].id = "0x1" /\ devices[2].id = "0x1"
    /\ dsock = "closed"

\* the number of leading records of `list` that carry an id
RECURSIVE LeadingWithId(_)
LeadingWithId(list) ==
    IF list = <<>> \/ "id" \notin DOMAIN Head(list) THEN 0
    ELSE 1 + LeadingWithId(Tail(list))

\* the socket was closed by the error handler (the window timer is still armed)
ClosedByError == dsock = "closed" /\ dtimer = "armed"

\* C11: when a socket error closes the socket after k replies, the k records
\* are all still in the list and the close handler's loop is run over them (it
\* handles every record up to the first one without an id, in order).
C11_ErrorKeepsRecords ==
    ClosedByError =>
        /\ closeRuns = 1
        /\ Len(devices) = Len(arrived)
        /\ \A k \in 1..Len(arrived) : devices[k] = RecordOf(arrived[k])
        /\ Len(reconciled) = LeadingWithId(devices)
        /\ \A k \in 1..Len(reconciled) : reconciled[k].uuid = Generate(devices[k].id)

\* two bulbs had replied when the error came; both were reconciled
C11_Witness ==
    /\ ClosedByError
    /\ arrived = <<ReplyBulb1, ReplyBulb2>>
    /\ Len(reconciled) = 2
    /\ reconciled[1].uuid = "uuid:0x1" /\ reconciled[2].uuid = "uuid:0x2"

\* C14: the socket is closed once and the close handler runs once; the window
\* timer firing on a socket an error has already closed closes nothing again
\* and raises nothing.
C14_TimerAfterError ==
    [][/\ closeRuns' <= 1
       /\ (dtimer = "armed" /\ dtimer' = "fired" /\ dsock = "closed") =>
              (~crashed' /\ closeRuns' = closeRuns)]_vars

\* C15: every discovery cycle ends with the socket closed and the close
\* handler run.
C15_CycleTerminates == (phase = "discovering") ~> (dsock = "closed" /\ closeRuns = 1)

\* C16: a probe is handed to socket.send only in the step in which the socket
\* starts listening and the group is joined, once per cycle; none is sent on a
\* socket that is binding or closed.
C16_Step ==
    /\ probes' \in {0, 1}
    /\ probes' # probes =>
           /\ dsock = "binding" /\ dsock' = "listening"
           /\ ~crashed'
           /\ probes = 0
    /\ dsock' \in {"none", "binding"} => probes' = 0
    /\ dsock = "closed" => probes' = probes

C16_ProbeAfterListening == [][C16_Step]_vars

\* the probe went out once, and the window timer then closed the socket
C16_Witness == probes = 1 /\ dsock = "closed" /\ dtimer = "fired" /\ ~crashed

\* C20: a discovery cycle leaves this.accessories as configureAccessory built
\* it, and a Restore entry holds the accessory exactly as cached, whatever the
\* new record says.
C20_Step ==
    /\ phase = "discovering" => accessories' = accessories
    /\ \A k \in 1..Len(reconciled') :
           reconciled'[k].action = "Restore" =>
               /\ reconciled'[k].accessory \in CachedAccessories
               /\ \E a \in 1..Len(accessories') : accessories'[a] = reconciled'[k].accessory
    /\ \A a \in 1..Len(accessories') : accessories'[a] \in CachedAccessories

C20_KnownStateUnchanged == [][C20_Step]_vars

\* bulb 0x1 answered from a new address and was restored with the cached one
C20_Witness ==
    /\ arrived = <<ReplyBulb1Moved>>
    /\ Len(reconciled) = 1
    /\ reconciled[1].action = "Restore"
    /\ reconciled[1].accessory.context.device.location = "yeelight://10.0.0.5:55443"
    /\ devices[1].location = "yeelight://10.0.0.9:55443"
    /\ accessories = <<Accessory(parseScript(ReplyBulb1))>>

(***************************************************************************)
(* Claims about parseScript (checked under SpecParser)                     *)
(***************************************************************************)
\* the mapping the lines stand for: one entry per key, the last line with a
\* key giving its value
ExpectedMapping(lines) ==
    LET withColon == {j \in 1..Len(lines) : lines[j].colon}
        LastOf(key) == CHOOSE j \in withColon :
                           /\ lines[j].key = key
                           /\ \A h \in withColon : lines[h].key = key => h <= j
    IN  [key \in {lines[j].key : j \in withColon} |-> lines[LastOf(key)].value]

\* C12: parseScript returns, for every text, the mapping with one entry per
\* line holding ':' (lower-cased trimmed key, trimmed value, later colons kept),
\* the later line winning; lines without ':' add nothing.
C12_ParserMapping ==
    parsed # <<>> => parsed[1] = ExpectedMapping(pInput.lines)

(***************************************************************************)
(* Further claims about the control channel (checked under SpecControl)    *)
(***************************************************************************)
\* the chunk the data handler of invocation i was given in this step, if any
GotChunk(i) == Len(inv'[i].rcvd) = Len(inv[i].rcvd) + 1

\* C13: getOn's handler takes every decoded reply without failing, and getOn
\* returns true exactly when the one decoded reply it got has result[0] = "on";
\* for any other decoded reply it returns false.
C13_Step ==
    \A i \in Invocations :
        inv'[i].kind = "getOn" =>
            /\ (GotChunk(i) /\ JSONParse(inv'[i].rcvd[Len(inv'[i].rcvd)]).ok) => ~crashed'
            /\ (inv'[i].timer = "fired" /\ Len(inv'[i].rcvd) = 1
                    /\ JSONParse(inv'[i].rcvd[1]).ok) =>
                   inv'[i].ret = BoolStr(inv'[i].rcvd[1] = ReplyOn)

C13_PowerReading == [][C13_Step]_vars

\* C17: the value an invocation returns is the reading of the first chunk it
\* received; chunks after the first do not change it.
C17_FirstChunkDecides ==
    \A i \in Invocations :
        (inv[i].timer = "fired" /\ Len(inv[i].rcvd) >= 1) =>
            inv[i].ret = BoolStr(inv[i].rcvd[1] = ReplyOn)

\* C18: the command is written once, in the step that establishes the
\* connection and in no other: not before, and not on a socket already closed.
C18_Step ==
    \A i \in Invocations :
        /\ inv'[i].wrote # inv[i].wrote =>
               /\ inv[i].sock = "connecting" /\ inv'[i].sock = "open"
               /\ inv'[i].wrote = <<inv[i].payload>>
        /\ inv'[i].sock = "open" => Len(inv'[i].wrote) = 1
        /\ inv'[i].error => inv'[i].wrote = <<>>

C18_WrittenOnce == [][C18_Step]_vars

\* one invocation wrote its command and was closed by its timer; another was
\* closed by its timer while still connecting and wrote nothing
C18_Witness ==
    \E i, j \in Invocations :
        /\ inv[i].timer = "fired" /\ inv[i].wrote = <<GetPayload>> /\ inv[i].sock = "closed"
        /\ inv[j].timer = "fired" /\ inv[j].wrote = <<>> /\ inv[j].sock = "closed"
        /\ ~inv[j].error

\* the reading getOn's handler is left with after these chunks
RECURSIVE ReadingOf(_)
ReadingOf(chunks) ==
    IF chunks = <<>> THEN FALSE
    ELSE LET last == chunks[Len(chunks)]
         IN  IF last = ReplyOn THEN TRUE
             ELSE IF last \in {ReplyOff, ReplyEmpty} THEN FALSE
             ELSE ReadingOf(SubSeq(chunks, 1, Len(chunks) - 1))

\* C19: a chunk delivered to one invocation changes nothing of any other
\* invocation, and each getOn returns the reading of the chunks delivered on its
\* own connection.
C19_Step ==
    \A i \in Invocations :
        /\ GotChunk(i) => \A j \in Invocations \ {i} : inv'[j] = inv[j]
        /\ (inv'[i].kind = "getOn" /\ inv'[i].timer = "fired") =>
               inv'[i].ret = BoolStr(ReadingOf(inv'[i].rcvd))

C19_Isolated == [][C19_Step]_vars

\* two getOn calls on the same bulb overlapped; one read "on", the other "off"
C19_Witness ==
    \E i, j \in Invocations :
        /\ inv[i].kind = "getOn" /\ inv[j].kind = "getOn"
        /\ inv[i].device = DeviceGood /\ inv[j].device = DeviceGood
        /\ inv[i].rcvd = <<ReplyOn>> /\ inv[i].ret = "true"
        /\ inv[j].rcvd = <<ReplyOff>> /\ inv[j].ret = "false"

====
